---- MODULE Spec2Model ----
(***************************************************************************)
(* Model of scripts/ReservoirManagement.py: the construction of the pump   *)
(* scheduling model (a dimod constrained quadratic model), statement by    *)
(* statement, and the solve cell that samples it and keeps the feasible    *)
(* samples.                                                                *)
(*                                                                         *)
(* Numbers.  The script computes with decimal data (44.62, 523.5) and      *)
(* divides the tariff by 1000.  Every number of the model is an integer    *)
(* count of thousandths (Unit = 1000 stands for 1.0), which represents     *)
(* all of the script's data, its prices and their products with the        *)
(* integer power ratings exactly.  Binary floating point rounding is not   *)
(* modelled.                                                               *)
(***************************************************************************)
EXTENDS Integers, Sequences, FiniteSets, TLC

VARIABLES pumps, exogenous, reservoir, model, pc, idx, samples, feasible

vars == <<pumps, exogenous, reservoir, model, pc, idx, samples, feasible>>

-----------------------------------------------------------------------------
(* Bounds of the generic instances *)

MaxPumps == 2

MaxTime == 2

(* One unit (1.0) in thousandths: the resolution the /1000 of power_price needs *)
Unit == 1000

Num(n) == n * Unit

Dec(whole, hundredths) == whole * Unit + hundredths * 10

(* Product of two numbers in thousandths, split so that it stays in range *)
FMul(a, b) == (a \div Unit) * b + ((a % Unit) * b) \div Unit

Range(s) == {s[k] : k \in DOMAIN s}

-----------------------------------------------------------------------------
(* Input tables *)

(* pumps.csv rows used by the generic instances: the first P rows *)
PumpCatalog ==
    << [id |-> 1, capacity |-> Num(1), power_consumption |-> Num(3)],
       [id |-> 2, capacity |-> Num(2), power_consumption |-> Num(1)],
       [id |-> 3, capacity |-> Num(2), power_consumption |-> Num(2)],
       [id |-> 4, capacity |-> Num(3), power_consumption |-> Num(1)] >>

(* per-hour tariff of the generic instances: the three tariff levels *)
PriceCatalog == << Num(169), Num(283), Num(336), Num(169) >>

DemandValues == {Num(1), Num(4)}

Reservoirs ==
    { [Vmin |-> Num(0), Vmax |-> Num(2), Vinit |-> Num(2)],
      [Vmin |-> Num(0), Vmax |-> Num(1), Vinit |-> Num(1)],
      [Vmin |-> Num(1), Vmax |-> Num(2), Vinit |-> Num(1)] }

(* values the sampler may give a volume variable in the generic instances *)
VolumeValues == {Num(0), Num(1), Num(2)}

(* The reference dataset of the script *)
RefPumps ==
    << [id |-> 1, capacity |-> Num(75),  power_consumption |-> Num(15)],
       [id |-> 2, capacity |-> Num(133), power_consumption |-> Num(37)],
       [id |-> 3, capacity |-> Num(157), power_consumption |-> Num(33)],
       [id |-> 4, capacity |-> Num(176), power_consumption |-> Num(33)],
       [id |-> 5, capacity |-> Num(59),  power_consumption |-> Num(22)],
       [id |-> 6, capacity |-> Num(69),  power_consumption |-> Num(33)],
       [id |-> 7, capacity |-> Num(120), power_consumption |-> Num(22)] >>

RefDemand ==
    << Dec(44,62), Dec(31,27), Dec(26,22), Dec(27,51), Dec(31,50), Dec(46,18),
       Dec(69,47), Dec(100,36), Dec(131,85), Dec(148,51), Dec(149,89), Dec(142,21),
       Dec(132,9), Dec(129,29), Dec(124,6), Dec(114,68), Dec(109,33), Dec(115,76),
       Dec(126,95), Dec(131,48), Dec(138,86), Dec(131,91), Dec(111,53), Dec(70,43) >>

RefPrice ==
    << 169, 169, 169, 169, 169, 169, 169, 283, 283, 283, 283, 283,
       283, 169, 169, 169, 336, 336, 336, 336, 336, 169, 169, 169 >>

RefExogenous ==
    [t \in 1..24 |-> [time |-> t, water_demand |-> RefDemand[t],
                      power_price |-> Num(RefPrice[t])]]

RefReservoir == [Vmin |-> Dec(523,50), Vmax |-> Num(1500), Vinit |-> Num(550)]

-----------------------------------------------------------------------------
(* Parameters *)

PumpIds == {pumps[k].id : k \in DOMAIN pumps}

PumpRow(pump) == CHOOSE r \in Range(pumps) : r.id = pump

ExoRow(time) == CHOOSE r \in Range(exogenous) : r.time = time

capacity(pump) == PumpRow(pump).capacity

power_consumption(pump) == PumpRow(pump).power_consumption

timeslots == [k \in DOMAIN exogenous |-> exogenous[k].time]

MinTime == CHOOSE m \in Range(timeslots) : \A t \in Range(timeslots) : m <= t

power_price_100(time) == ExoRow(time).power_price \div 100

power_price(time) == ExoRow(time).power_price \div 1000

water_demand(time) == ExoRow(time).water_demand

-----------------------------------------------------------------------------
(* Symbolic linear expressions: a coefficient per variable label and an offset *)

Const(c) == [lin |-> [v \in {} |-> 0], off |-> c]

Var(label) == [lin |-> [v \in {label} |-> Unit], off |-> 0]

Coef(e, v) == IF v \in DOMAIN e.lin THEN e.lin[v] ELSE 0

Add(e1, e2) ==
    [lin |-> [v \in (DOMAIN e1.lin) \cup (DOMAIN e2.lin) |-> Coef(e1, v) + Coef(e2, v)],
     off |-> e1.off + e2.off]

Times(c, e) ==
    [lin |-> [v \in DOMAIN e.lin |-> FMul(c, e.lin[v])], off |-> FMul(c, e.off)]

Sub(e1, e2) == Add(e1, Times(-Unit, e2))

RECURSIVE Sum(_)
Sum(es) == IF es = <<>> THEN Const(0) ELSE Add(Sum(SubSeq(es, 1, Len(es) - 1)), es[Len(es)])

(* Variables *)

BinaryLabel(pump, time) == <<"pump", pump, "_time", time>>

RealLabel(time) == <<"volume_time", time>>

is_running(pump, time) == Var(BinaryLabel(pump, time))

reservoir_volume_strict(time) ==
    IF time > MinTime THEN Var(RealLabel(time)) ELSE Const(reservoir.Vinit)

reservoir_volume(time) ==
    IF time >= MinTime THEN Var(RealLabel(time)) ELSE Const(reservoir.Vinit)

(* Functions and relations *)

reservoir_inflow_count(time) ==
    Sum([k \in DOMAIN pumps |-> is_running(pumps[k].id, time)])

reservoir_inflow(time) ==
    Sum([k \in DOMAIN pumps |-> Times(capacity(pumps[k].id), is_running(pumps[k].id, time))])

reservoir_outflow_swapped(time) ==
    Sub(Add(reservoir_volume(time), reservoir_inflow(time)), reservoir_volume(time - 1))

reservoir_outflow(time) ==
    Sub(Add(reservoir_volume(time - 1), reservoir_inflow(time)), reservoir_volume(time))

power_used_capacity(time) ==
    Sum([k \in DOMAIN pumps |->
            Times(capacity(pumps[k].id), is_running(pumps[k].id, time))])

power_used(time) ==
    Sum([k \in DOMAIN pumps |->
            Times(power_consumption(pumps[k].id), is_running(pumps[k].id, time))])

-----------------------------------------------------------------------------
(* The model under construction *)

Constraint(lhs, sense, rhs, label) ==
    [lhs |-> lhs, sense |-> sense, rhs |-> rhs, label |-> label]

add_constraint(m, c) == [m EXCEPT !.constraints = Append(@, c)]

Objective ==
    Sum([k \in DOMAIN timeslots |-> Times(power_price(timeslots[k]), power_used(timeslots[k]))])

MinHoursConstraint_zero(pump) ==
    Constraint(Sum([k \in DOMAIN timeslots |-> is_running(pump, timeslots[k])]),
               ">=", Num(0), <<"pump", pump, "_on_at_least_1h_per_day">>)

MinHoursConstraint_le(pump) ==
    Constraint(Sum([k \in DOMAIN timeslots |-> is_running(pump, timeslots[k])]),
               "<=", Num(1), <<"pump", pump, "_on_at_least_1h_per_day">>)

MinHoursConstraint(pump) ==
    Constraint(Sum([k \in DOMAIN timeslots |-> is_running(pump, timeslots[k])]),
               ">=", Num(1), <<"pump", pump, "_on_at_least_1h_per_day">>)

ReserveConstraint_all(time) ==
    Constraint(Sum([k \in DOMAIN pumps |-> is_running(pumps[k].id, time)]),
               "<=", Num(Len(pumps)), <<"at_least_one_pump_in_reserve_at_time", time>>)

ReserveConstraint(time) ==
    Constraint(Sum([k \in DOMAIN pumps |-> is_running(pumps[k].id, time)]),
               "<=", Num(Len(pumps) - 1), <<"at_least_one_pump_in_reserve_at_time", time>>)

BalanceConstraint_le(time) ==
    Constraint(reservoir_outflow(time), "<=", water_demand(time), <<"volume_at_time", time>>)

BalanceConstraint(time) ==
    Constraint(reservoir_outflow(time), "==", water_demand(time), <<"volume_at_time", time>>)

CapacityConstraint_prev(time) ==
    Constraint(reservoir_volume(time - 1), "<=", reservoir.Vmax, <<"within_capacity_at_time", time>>)

CapacityConstraint(time) ==
    Constraint(reservoir_volume(time), "<=", reservoir.Vmax, <<"within_capacity_at_time", time>>)

FloorConstraint_refill(time) ==
    Constraint(reservoir_volume(time), ">=", reservoir.Vinit, <<"sufficient_reserve_at_time", time>>)

FloorConstraint(time) ==
    Constraint(reservoir_volume(time), ">=", reservoir.Vmin, <<"sufficient_reserve_at_time", time>>)

(* Evaluation of an expression and of a constraint under a sample *)

RECURSIVE SumOver(_, _, _)
SumOver(e, s, V) ==
    IF V = {} THEN 0
    ELSE LET v == CHOOSE x \in V : TRUE
         IN FMul(e.lin[v], s[v]) + SumOver(e, s, V \ {v})

(* the terms are added hour by hour, which keeps the recursion shallow *)
RECURSIVE SumByTime(_, _, _)
SumByTime(e, s, times) ==
    IF times = {} THEN 0
    ELSE LET t == CHOOSE x \in times : TRUE
         IN SumOver(e, s, {v \in DOMAIN e.lin : v[Len(v)] = t}) + SumByTime(e, s, times \ {t})

Energy(e, s) == e.off + SumByTime(e, s, {v[Len(v)] : v \in DOMAIN e.lin})

Satisfied(c, s) ==
    LET l == Energy(c.lhs, s)
    IN CASE c.sense = "<=" -> l <= c.rhs
         [] c.sense = ">=" -> l >= c.rhs
         [] OTHER -> l = c.rhs

Variables(m) ==
    (DOMAIN m.objective.lin) \cup
    UNION {DOMAIN m.constraints[k].lhs.lin : k \in DOMAIN m.constraints}

BinaryVars(m) == {v \in Variables(m) : v[1] = "pump"}

RealVars(m) == {v \in Variables(m) : v[1] = "volume_time"}

is_feasible(m, s) == \A k \in DOMAIN m.constraints : Satisfied(m.constraints[k], s)

Sampled(m, s) == [sample |-> s, energy |-> Energy(m.objective, s), is_feasible |-> is_feasible(m, s)]

-----------------------------------------------------------------------------
(* Initial states *)

EmptyModel == [objective |-> Const(0), constraints |-> <<>>]

InitBuild ==
    /\ model = EmptyModel
    /\ pc = "set_objective"
    /\ idx = 1
    /\ samples = <<>>
    /\ feasible = <<>>

Init ==
    /\ \E P \in 1..MaxPumps, T \in 1..MaxTime :
         /\ pumps = SubSeq(PumpCatalog, 1, P)
         /\ \E d \in [1..T -> DemandValues] :
              exogenous = [t \in 1..T |-> [time |-> t, water_demand |-> d[t],
                                           power_price |-> PriceCatalog[t]]]
    /\ reservoir \in Reservoirs
    /\ InitBuild

InitRef ==
    /\ pumps = RefPumps
    /\ exogenous = RefExogenous
    /\ reservoir = RefReservoir
    /\ InitBuild

-----------------------------------------------------------------------------
(* The statements of the script *)

Advance(last, next) ==
    IF idx = last THEN pc' = next /\ idx' = 1 ELSE pc' = pc /\ idx' = idx + 1

SetObjective ==
    /\ pc = "set_objective"
    /\ model' = [model EXCEPT !.objective = Objective]
    /\ pc' = "min_hours"
    /\ UNCHANGED <<pumps, exogenous, reservoir, idx, samples, feasible>>

AddMinHours ==
    /\ pc = "min_hours"
    /\ model' = add_constraint(model, MinHoursConstraint(pumps[idx].id))
    /\ Advance(Len(pumps), "reserve")
    /\ UNCHANGED <<pumps, exogenous, reservoir, samples, feasible>>

AddReserve ==
    /\ pc = "reserve"
    /\ model' = add_constraint(model, ReserveConstraint(timeslots[idx]))
    /\ Advance(Len(timeslots), "balance")
    /\ UNCHANGED <<pumps, exogenous, reservoir, samples, feasible>>

AddBalance ==
    /\ pc = "balance"
    /\ model' = add_constraint(model, BalanceConstraint(timeslots[idx]))
    /\ Advance(Len(timeslots), "capacity")
    /\ UNCHANGED <<pumps, exogenous, reservoir, samples, feasible>>

AddCapacity ==
    /\ pc = "capacity"
    /\ model' = add_constraint(model, CapacityConstraint(timeslots[idx]))
    /\ Advance(Len(timeslots), "floor")
    /\ UNCHANGED <<pumps, exogenous, reservoir, samples, feasible>>

AddFloor ==
    /\ pc = "floor"
    /\ model' = add_constraint(model, FloorConstraint(timeslots[idx]))
    /\ Advance(Len(timeslots), "solve")
    /\ UNCHANGED <<pumps, exogenous, reservoir, samples, feasible>>

Build == SetObjective \/ AddMinHours \/ AddReserve \/ AddBalance \/ AddCapacity \/ AddFloor

(* The solve cell: the sampler returns samples tagged feasible or not, *)
(* possibly none; the feasible ones are kept.                           *)
Filter(ss) == SelectSeq(ss, LAMBDA d : d.is_feasible)

SolveWith(Candidates) ==
    /\ pc = "solve"
    /\ \/ \E s \in Candidates : samples' = << Sampled(model, s) >>
       \/ samples' = <<>>
    /\ feasible' = Filter(samples')
    /\ pc' = "done"
    /\ UNCHANGED <<pumps, exogenous, reservoir, model, idx>>

(* every assignment of the model's variables over the sampled values *)
GridSamples ==
    {b @@ r : b \in [BinaryVars(model) -> {0, Unit}], r \in [RealVars(model) -> VolumeValues]}

Solve == SolveWith(GridSamples)

Next == Build \/ Solve

Spec == Init /\ [][Next]_vars

(* The reference dataset: the sampler's candidates are the all-on and the *)
(* all-off schedule, with volumes following the balance or left at Vinit  *)
RECURSIVE RefBalanced(_, _)
RefBalanced(on, t) ==
    IF t < 1 THEN reservoir.Vinit
    ELSE RefBalanced(on, t - 1) + on * Energy(reservoir_inflow(t), [v \in BinaryVars(model) |-> Unit])
         - water_demand(t)

RefSamples ==
    {[v \in Variables(model) |->
        IF v[1] = "pump" THEN on * Unit
        ELSE IF balanced THEN RefBalanced(on, v[2]) ELSE reservoir.Vinit]
       : on \in {0, 1}, balanced \in BOOLEAN}

SolveRef == SolveWith(RefSamples)

NextRef == Build \/ SolveRef

SpecRef == InitRef /\ [][NextRef]_vars

-----------------------------------------------------------------------------
(* Vocabulary of the properties *)

P == Len(pumps)

T == Len(exogenous)

RECURSIVE SumTo(_, _)
SumTo(ns, n) == IF n = 0 THEN 0 ELSE SumTo(ns, n - 1) + ns[n]

SeqSum(ns) == SumTo(ns, Len(ns))

(* 1 iff the sample runs the pump in the hour *)
Running(s, pump, time) == IF s[BinaryLabel(pump, time)] = Unit THEN 1 ELSE 0

(* the stored volume of the sample at the end of the hour; Vinit before hour 1 *)
Volume(s, time) == IF time = 0 THEN reservoir.Vinit ELSE s[RealLabel(time)]

Inflow(s, time) == SeqSum([k \in DOMAIN pumps |-> pumps[k].capacity * Running(s, pumps[k].id, time)])

PowerUsed(s, time) ==
    SeqSum([k \in DOMAIN pumps |-> pumps[k].power_consumption * Running(s, pumps[k].id, time)])

RunningCount(s, time) == Cardinality({k \in DOMAIN pumps : Running(s, pumps[k].id, time) = 1})

HoursOn(s, pump) == Cardinality({t \in 1..T : Running(s, pump, t) = 1})

Labelled(family) == {k \in DOMAIN model.constraints : model.constraints[k].label[1] = family}

WithLabel(label) == {k \in DOMAIN model.constraints : model.constraints[k].label = label}

(* The solve cell leaves the model as built: what holds of the constraints *)
(* when the build ends (pc = "solve") holds of the model that was solved.   *)
AfterBalance == pc \in {"capacity", "floor", "solve"}

Built == pc = "solve"

FeasibleSamples == {feasible[k].sample : k \in DOMAIN feasible}

-----------------------------------------------------------------------------
(* C1: for every timeslot t the model holds a mass-balance constraint      *)
(* outflow(t) = waterDemand(t), whose left side is exactly                 *)
(* volume(t-1) + inflow(t) - volume(t) with inflow(t) the capacity-weighted *)
(* sum of the running variables of hour t; hence every feasible sample has *)
(* volume(t) = volume(t-1) + inflow(t) - waterDemand(t) at every t.        *)
ExpectedOutflow(t) ==
    [lin |-> [v \in {BinaryLabel(pumps[k].id, t) : k \in DOMAIN pumps}
                    \cup {RealLabel(t)}
                    \cup (IF t > 1 THEN {RealLabel(t - 1)} ELSE {}) |->
                IF v[1] = "pump" THEN PumpRow(v[2]).capacity
                ELSE IF v[2] = t THEN -Unit ELSE Unit],
     off |-> IF t = 1 THEN reservoir.Vinit ELSE 0]

C1_MassBalance ==
    /\ \A t \in 1..T :
         (AfterBalance \/ (pc = "balance" /\ t < idx)) =>
            /\ Cardinality(WithLabel(<<"volume_at_time", t>>)) = 1
            /\ \A k \in WithLabel(<<"volume_at_time", t>>) :
                 /\ model.constraints[k].lhs = ExpectedOutflow(t)
                 /\ model.constraints[k].sense = "=="
                 /\ model.constraints[k].rhs = exogenous[t].water_demand
    /\ \A s \in FeasibleSamples : \A t \in 1..T :
         Volume(s, t) = Volume(s, t - 1) + Inflow(s, t) - exogenous[t].water_demand

C1_Witness ==
    /\ pc = "done" /\ T >= 2
    /\ \E s \in FeasibleSamples :
         /\ Inflow(s, 2) > 0
         /\ Volume(s, 2) # Volume(s, 1)

(* C2 as stated: a demand in some hour above the largest combined capacity *)
(* of any P-1 pumps leaves the solve without a feasible sample.            *)
MaxOf(S) == CHOOSE m \in S : \A n \in S : n <= m

MaxReserveInflow ==
    MaxOf({SeqSum([k \in DOMAIN pumps |-> IF k = out THEN 0 ELSE pumps[k].capacity])
             : out \in DOMAIN pumps})

C2_AsStated ==
    (pc = "done" /\ \E t \in 1..T : exogenous[t].water_demand > MaxReserveInflow)
        => feasible = <<>>

(* C2, amended: a demand in some hour above the largest combined capacity  *)
(* of any P-1 pumps plus the water the tank can give up (Vmax - Vmin)      *)
(* leaves the solve without a feasible sample; and no sample that violates *)
(* the balance of some hour is ever tagged or kept as feasible.            *)
BalanceHolds(s, t) ==
    Volume(s, t - 1) + Inflow(s, t) - Volume(s, t) = exogenous[t].water_demand

Overdrawn ==
    \E t \in 1..T :
        exogenous[t].water_demand > MaxReserveInflow + (reservoir.Vmax - reservoir.Vmin)

C2_Infeasible ==
    pc = "done" =>
        /\ feasible # <<>> => ~Overdrawn
        /\ \A k \in DOMAIN samples :
             (samples[k].is_feasible \/ samples[k].sample \in FeasibleSamples)
                => \A t \in 1..T : BalanceHolds(samples[k].sample, t)

C2_Witness ==
    /\ pc = "done" /\ P >= 2 /\ T >= 2
    /\ Overdrawn
    /\ reservoir.Vmax > reservoir.Vmin
    /\ samples # <<>> /\ feasible = <<>>
    /\ \A t \in 1..T : RunningCount(samples[1].sample, t) = P - 1

(* C3: in every feasible sample and every hour at most P-1 pumps run; the  *)
(* model holds one reserve constraint per timeslot.                        *)
C3_ReserveBound ==
    /\ Built => Cardinality(Labelled("at_least_one_pump_in_reserve_at_time")) = T
    /\ \A s \in FeasibleSamples : \A t \in 1..T : RunningCount(s, t) <= P - 1

C3_Witness ==
    /\ pc = "done" /\ P >= 2
    /\ \E s \in FeasibleSamples : \E t \in 1..T : RunningCount(s, t) = P - 1

(* C4: in every feasible sample every pump of the table runs in at least   *)
(* one timeslot; the model holds one minimum-utilization constraint per    *)
(* pump.                                                                   *)
C4_MinHours ==
    /\ Built => \A k \in DOMAIN pumps :
                  Cardinality(WithLabel(<<"pump", pumps[k].id, "_on_at_least_1h_per_day">>)) = 1
    /\ \A s \in FeasibleSamples : \A k \in DOMAIN pumps : HoursOn(s, pumps[k].id) >= 1

C4_Witness ==
    /\ pc = "done" /\ T >= 2
    /\ \E s \in FeasibleSamples : \E k \in DOMAIN pumps : HoursOn(s, pumps[k].id) = 1

(* C5: in every feasible sample the volume of every timeslot lies within   *)
(* [Vmin, Vmax]; the ceiling and the floor constraint of hour t are on the *)
(* volume variable of that same t.                                         *)
C5_VolumeLimits ==
    /\ Built => \A t \in 1..T :
         /\ \E k \in WithLabel(<<"within_capacity_at_time", t>>) :
               /\ DOMAIN model.constraints[k].lhs.lin = {RealLabel(t)}
               /\ model.constraints[k].rhs = reservoir.Vmax
         /\ \E k \in WithLabel(<<"sufficient_reserve_at_time", t>>) :
               /\ DOMAIN model.constraints[k].lhs.lin = {RealLabel(t)}
               /\ model.constraints[k].rhs = reservoir.Vmin
    /\ \A s \in FeasibleSamples : \A t \in 1..T :
         reservoir.Vmin <= Volume(s, t) /\ Volume(s, t) <= reservoir.Vmax

C5_Witness ==
    /\ pc = "done"
    /\ reservoir.Vmin > 0
    /\ \E s \in FeasibleSamples :
         /\ \E t \in 1..T : Volume(s, t) = reservoir.Vmax
         /\ \E t \in 1..T : Volume(s, t) = reservoir.Vmin

(* C6: volume(0) is the constant Vinit and never a variable, volume(t) for *)
(* every timeslot t in 1..T is a continuous variable; the balance          *)
(* constraint of hour 1 reads Vinit + inflow(1) - volume(1) = demand(1),   *)
(* and the model has no variable for time 0.                               *)
C6_BoundarySubstitution ==
    /\ pc # "done" =>
         /\ reservoir_volume(0) = [lin |-> <<>>, off |-> reservoir.Vinit]
         /\ \A t \in 1..T :
              reservoir_volume(t) = [lin |-> [v \in {RealLabel(t)} |-> Unit], off |-> 0]
         /\ \A k \in WithLabel(<<"volume_at_time", 1>>) :
              LET c == model.constraints[k]
              IN /\ c.lhs.off = reservoir.Vinit
                 /\ {v \in DOMAIN c.lhs.lin : v[1] = "volume_time"} = {RealLabel(1)}
                 /\ c.lhs.lin[RealLabel(1)] = -Unit
                 /\ \A j \in DOMAIN pumps :
                      c.lhs.lin[BinaryLabel(pumps[j].id, 1)] = pumps[j].capacity
                 /\ c.rhs = exogenous[1].water_demand
         /\ \A v \in Variables(model) : v[Len(v)] \in 1..T
    /\ Built => RealVars(model) = {RealLabel(t) : t \in 1..T}
    /\ \A k \in DOMAIN samples :
         {v \in DOMAIN samples[k].sample : v[1] = "volume_time"} = {RealLabel(t) : t \in 1..T}

C6_Witness ==
    /\ pc = "done" /\ T >= 2
    /\ reservoir.Vinit > 0
    /\ \E k \in WithLabel(<<"volume_at_time", 1>>) :
         model.constraints[k].lhs.off = reservoir.Vinit
    /\ \E s \in FeasibleSamples : Volume(s, 1) # reservoir.Vinit

(* C7: for every assignment of the running variables the objective is the  *)
(* sum over t of powerPrice(t) * powerUsed(t), powerUsed(t) the sum of the *)
(* power ratings of the pumps running in t and powerPrice(t) the raw       *)
(* tariff divided by exactly 1000 (169 enters as 0.169); the objective has *)
(* no volume variable.                                                     *)
RawPrice(t) == exogenous[t].power_price \div Unit

C7_Objective ==
    /\ pc # "done" => \A t \in 1..T : RawPrice(t) = 169 => power_price(t) * 1000 = 169 * Unit
    /\ pc \notin {"set_objective", "done"} =>
         /\ DOMAIN model.objective.lin =
               {BinaryLabel(pumps[k].id, t) : k \in DOMAIN pumps, t \in 1..T}
         /\ model.objective.off = 0
    /\ \A k \in DOMAIN samples :
         1000 * samples[k].energy =
            SeqSum([t \in 1..T |-> RawPrice(t) * PowerUsed(samples[k].sample, t)])

C7_Witness ==
    /\ pc = "done" /\ T >= 2 /\ P >= 2
    /\ \E k \in DOMAIN samples :
         /\ samples[k].energy > 0
         /\ \A t \in 1..T : PowerUsed(samples[k].sample, t) > 0
         /\ \E t \in 1..T : RunningCount(samples[k].sample, t) < P

(* C8: on the reference dataset, with every pump running every hour,       *)
(* powerUsed(t) is 195 at every t and the objective is 1087.125, whether   *)
(* or not that assignment satisfies the constraints.                       *)
AllOn == [v \in {BinaryLabel(pumps[k].id, t) : k \in DOMAIN pumps, t \in 1..T} |-> Unit]

IsAllOn(s) == \A k \in DOMAIN pumps : \A t \in 1..T : Running(s, pumps[k].id, t) = 1

FiveFamilies(s) ==
    /\ \A k \in DOMAIN pumps : HoursOn(s, pumps[k].id) >= 1
    /\ \A t \in 1..T : RunningCount(s, t) <= P - 1
    /\ \A t \in 1..T : BalanceHolds(s, t)
    /\ \A t \in 1..T : Volume(s, t) <= reservoir.Vmax
    /\ \A t \in 1..T : Volume(s, t) >= reservoir.Vmin

ScheduleOk(b) ==
    \A k \in Labelled("pump") \cup Labelled("at_least_one_pump_in_reserve_at_time") :
        Satisfied(model.constraints[k], b)

C10_SchedulesExist ==
    /\ pc = "solve" =>
         ((\E b \in [BinaryVars(model) -> {0, Unit}] : ScheduleOk(b)) <=> (P >= 2 /\ T >= 2))
    /\ (pc = "done" /\ (P = 1 \/ T = 1)) => feasible = <<>>

C10_Witness ==
    /\ pc = "done" /\ T = 1 /\ P >= 2
    /\ samples # <<>> /\ feasible = <<>>
    /\ BalanceHolds(samples[1].sample, 1)
    /\ reservoir.Vmin <= Volume(samples[1].sample, 1)
    /\ Volume(samples[1].sample, 1) <= reservoir.Vmax
    /\ RunningCount(samples[1].sample, 1) = P - 1

(* C11: in every feasible sample the volumes are fixed by the schedule:    *)
(* volume(t) = Vinit + sum over s in 1..t of (inflow(s) - waterDemand(s)); *)
(* no other volumes make the same schedule feasible; and a sample is       *)
(* feasible exactly when its volumes are these cumulative sums, the sums   *)
(* stay within [Vmin, Vmax] at every t, and the reserve and the            *)
(* minimum-utilization constraints hold.                                   *)
Cumulative(s, t) ==
    reservoir.Vinit + SeqSum([u \in 1..t |-> Inflow(s, u) - exogenous[u].water_demand])

ScheduleOf(s) == [v \in {x \in DOMAIN s : x[1] = "pump"} |-> s[v]]

VolumesOf(s) == [v \in {x \in DOMAIN s : x[1] = "volume_time"} |-> s[v]]

CumulativeFeasible(s) ==
    /\ \A t \in 1..T : RunningCount(s, t) <= P - 1
    /\ \A k \in DOMAIN pumps : HoursOn(s, pumps[k].id) >= 1
    /\ \A t \in 1..T :
         /\ reservoir.Vmin <= Cumulative(s, t)
         /\ Cumulative(s, t) <= reservoir.Vmax
         /\ Volume(s, t) = Cumulative(s, t)

C11_VolumesDetermined ==
    /\ \A s \in FeasibleSamples :
         /\ \A t \in 1..T : Volume(s, t) = Cumulative(s, t)
         /\ \A r \in [RealVars(model) -> VolumeValues] :
              is_feasible(model, ScheduleOf(s) @@ r) => r = VolumesOf(s)
    /\ \A k \in DOMAIN samples :
         samples[k].is_feasible <=> CumulativeFeasible(samples[k].sample)

C11_Witness ==
    /\ pc = "done" /\ T >= 2 /\ P >= 2
    /\ \E s \in FeasibleSamples :
         /\ Inflow(s, 1) # Inflow(s, 2)
         /\ Volume(s, T) # reservoir.Vinit
         /\ Volume(s, T) = Cumulative(s, T)

====
